---- MODULE Spec2Model ----
(***************************************************************************)
(* A model of password_generator.py: the two generators, the logging       *)
(* helper, the stress driver and the command line entry point.             *)
(*                                                                         *)
(* Text is modelled as sequences of one-character strings, so that a file  *)
(* is the sequence of characters written to it and a line is what lies     *)
(* between two "\n" characters.                                            *)
(***************************************************************************)
EXTENDS Integers, Sequences, FiniteSets, TLC

\* ------------------------------------------------------------------------
\* Characters (the constants of Python's string module)
\* ------------------------------------------------------------------------

ascii_lowercase ==
  << "a","b","c","d","e","f","g","h","i","j","k","l","m",
     "n","o","p","q","r","s","t","u","v","w","x","y","z" >>

ascii_uppercase ==
  << "A","B","C","D","E","F","G","H","I","J","K","L","M",
     "N","O","P","Q","R","S","T","U","V","W","X","Y","Z" >>

digits == << "0","1","2","3","4","5","6","7","8","9" >>

\* The grave accent (U+0060).  SANY reads a grave accent inside a string as
\* the start of a quotation that runs to the next apostrophe, so a string
\* cannot hold the character alone; this two-character string stands for it.
GraveAccent == "`'"

punctuation ==
  << "!","\"","#","$","%","&","'","(",")","*","+",",","-",".","/",
     ":",";","<","=",">","?","@","[","\\","]","^","_",GraveAccent,
     "{","|","}","~" >>

\* The printable ASCII characters in code point order: the order sorted()
\* puts one-character strings in.
CodePointOrder ==
  << " ","!","\"","#","$","%","&","'","(",")","*","+",",","-",".","/" >>
  \o digits
  \o << ":",";","<","=",">","?","@" >>
  \o ascii_uppercase
  \o << "[","\\","]","^","_",GraveAccent >>
  \o ascii_lowercase
  \o << "{","|","}","~" >>

Range(s) == { s[i] : i \in DOMAIN s }

LowerSet == Range(ascii_lowercase)
UpperSet == Range(ascii_uppercase)
DigitSet == Range(digits)
PunctSet == Range(punctuation)

\* str.isspace() for the characters the model uses
Whitespace == { " ", "\t", "\n", "\r" }

IndexOf(s, c) == CHOOSE i \in DOMAIN s : s[i] = c

\* ------------------------------------------------------------------------
\* str methods
\* ------------------------------------------------------------------------

LowerChar(c) ==
  IF c \in UpperSet THEN ascii_lowercase[IndexOf(ascii_uppercase, c)] ELSE c

UpperChar(c) ==
  IF c \in LowerSet THEN ascii_uppercase[IndexOf(ascii_lowercase, c)] ELSE c

IsCased(c) == c \in LowerSet \cup UpperSet

\* str.lower()
Lower(w) == [ i \in 1..Len(w) |-> LowerChar(w[i]) ]

\* str.upper()
Upper(w) == [ i \in 1..Len(w) |-> UpperChar(w[i]) ]

\* str.title(): a cased character is upper-cased when the character before
\* it is not cased (or there is none), lower-cased otherwise.
Title(w) ==
  [ i \in 1..Len(w) |->
      IF i > 1 /\ IsCased(w[i-1]) THEN LowerChar(w[i]) ELSE UpperChar(w[i]) ]

\* str.strip(): without leading and trailing whitespace
Strip(s) ==
  LET keep == { i \in DOMAIN s : s[i] \notin Whitespace }
  IN  IF keep = {} THEN << >>
      ELSE LET lo == CHOOSE i \in keep : \A j \in keep : i <= j
               hi == CHOOSE i \in keep : \A j \in keep : j <= i
           IN  SubSeq(s, lo, hi)

\* "".join(parts) with separator sep
RECURSIVE Join(_, _)
Join(parts, sep) ==
  IF parts = << >> THEN << >>
  ELSE IF Len(parts) = 1 THEN parts[1]
  ELSE parts[1] \o sep \o Join(Tail(parts), sep)

\* sorted(set): the members of a set of characters in code point order
Sorted(set) == SelectSeq(CodePointOrder, LAMBDA c : c \in set)

\* ------------------------------------------------------------------------
\* Optional values: None is the empty tuple, a value x is <<x>>
\* ------------------------------------------------------------------------

None == << >>
Some(x) == << x >>

\* ------------------------------------------------------------------------
\* The random sources.  A source is a tape of draws fixed when the program
\* starts and a position on it; the tape is read cyclically.  `random` (the
\* Mersenne Twister) and `secrets` (the operating system's source) are two
\* independent sources.
\* ------------------------------------------------------------------------

\* The i-th next draw (i = 0 is the next one)
Draw(rng, i) == rng.tape[((rng.pos + i) % Len(rng.tape)) + 1]

\* Random._randbelow(n) on the i-th next draw: a number in 0..n-1
Randbelow(rng, i, n) == Draw(rng, i) % n

\* The source after k draws
Advance(rng, k) == [ rng EXCEPT !.pos = (rng.pos + k) % Len(rng.tape) ]

\* random.sample(pool, k) for 0 <= k <= len(pool), CPython's pool-tracking
\* branch (populations of up to 21 elements): the i-th result is the element
\* at a drawn position j of the not yet chosen ones, and position j then takes
\* the last not yet chosen element.
RECURSIVE SampleFrom(_, _, _, _)
SampleFrom(pool, i, k, rng) ==
  IF i = k THEN << >>
  ELSE LET n == Len(pool)
           j == Randbelow(rng, i, n - i) + 1
       IN  << pool[j] >>
             \o SampleFrom([ pool EXCEPT ![j] = pool[n - i] ], i + 1, k, rng)

sample(pool, k, rng) == SampleFrom(pool, 0, k, rng)

\* ------------------------------------------------------------------------
\* timestamp() and append_log()
\* ------------------------------------------------------------------------

WeekdayAbbr ==
  << <<"M","o","n">>, <<"T","u","e">>, <<"W","e","d">>, <<"T","h","u">>,
     <<"F","r","i">>, <<"S","a","t">>, <<"S","u","n">> >>

MonthAbbr ==
  << <<"J","a","n">>, <<"F","e","b">>, <<"M","a","r">>, <<"A","p","r">>,
     <<"M","a","y">>, <<"J","u","n">>, <<"J","u","l">>, <<"A","u","g">>,
     <<"S","e","p">>, <<"O","c","t">>, <<"N","o","v">>, <<"D","e","c">> >>

\* %d, %H, %M, %S: two digits, zero padded
Pad2(n) == << digits[((n \div 10) % 10) + 1], digits[(n % 10) + 1] >>

\* %Y for a four-digit year
Pad4(n) == Pad2(n \div 100) \o Pad2(n % 100)

\* datetime.now().strftime("%a %b %d %Y %H:%M:%S") at clock reading now:
\* [wday 0..6 from Monday, mon 1..12, day, year, sod seconds of the day]
timestamp(now) ==
  WeekdayAbbr[now.wday + 1] \o << " " >> \o MonthAbbr[now.mon] \o << " " >>
    \o Pad2(now.day) \o << " " >> \o Pad4(now.year) \o << " " >>
    \o Pad2(now.sod \div 3600) \o << ":" >>
    \o Pad2((now.sod \div 60) % 60) \o << ":" >>
    \o Pad2(now.sod % 60)

\* The "  |  " between the timestamp and the password
Separator == << " ", " ", "|", " ", " " >>

\* append_log as it would be without the "\n" that ends the line
append_log_unterminated(log, now, password) ==
  log \o timestamp(now) \o Separator \o password

\* append_log as it would be with the file opened in mode "w"
append_log_truncating(log, now, password) ==
  timestamp(now) \o Separator \o password \o << "\n" >>

\* append_log: the file's content after the write in append mode
append_log(log, now, password) ==
  log \o timestamp(now) \o Separator \o password \o << "\n" >>

\* The calendar datetime keeps: leap years and the days of each month
IsLeap(year) == year % 4 = 0 /\ (year % 100 # 0 \/ year % 400 = 0)

DaysInMonth(year, mon) ==
  IF mon = 2 THEN (IF IsLeap(year) THEN 29 ELSE 28)
  ELSE IF mon \in { 4, 6, 9, 11 } THEN 30 ELSE 31

\* The same time of day on the next day
NextDay(now) ==
  IF now.day < DaysInMonth(now.year, now.mon)
    THEN [ now EXCEPT !.wday = (now.wday + 1) % 7, !.day = now.day + 1 ]
  ELSE IF now.mon < 12
    THEN [ now EXCEPT !.wday = (now.wday + 1) % 7, !.day = 1,
                      !.mon = now.mon + 1 ]
  ELSE [ now EXCEPT !.wday = (now.wday + 1) % 7, !.day = 1, !.mon = 1,
                    !.year = now.year + 1 ]

RECURSIVE AddDays(_, _)
AddDays(now, days) ==
  IF days = 0 THEN now ELSE AddDays(NextDay(now), days - 1)

\* What datetime.now() reads `seconds` seconds after it read `now`
Later(now, seconds) ==
  LET total == now.sod + seconds
  IN  [ AddDays(now, total \div 86400) EXCEPT !.sod = total % 86400 ]

\* The clock is what datetime.now() reads next (at) and the seconds that pass
\* between one reading and the next (elapse, gone through in turn, over and
\* over).  Tick is the clock once it has been read.
Tick(clock) ==
  [ clock EXCEPT
      !.at = Later(clock.at, clock.elapse[(clock.pos % Len(clock.elapse)) + 1]),
      !.pos = (clock.pos + 1) % Len(clock.elapse) ]

\* ------------------------------------------------------------------------
\* load_nouns(limit): the stripped non-blank lines of the word list file,
\* cut to words[:limit] when a limit is given
\* ------------------------------------------------------------------------

Min(a, b) == IF a <= b THEN a ELSE b
Max(a, b) == IF a >= b THEN a ELSE b

load_nouns(file, limit) ==
  LET stripped == [ k \in 1..Len(file) |-> Strip(file[k]) ]
      words    == SelectSeq(stripped, LAMBDA w : w # << >>)
  IN  IF limit = None THEN words
      ELSE IF limit[1] >= 0 THEN SubSeq(words, 1, Min(limit[1], Len(words)))
      ELSE SubSeq(words, 1, Max(0, Len(words) + limit[1]))

\* ------------------------------------------------------------------------
\* generate_memorable
\* ------------------------------------------------------------------------

\* The result of a generation call: how it ended ("ok", or the exception
\* raised), the value returned, and the log file and the random sources as
\* the call leaves them.
Outcome(status, ret, log, rnd, sec) ==
  [ status |-> status, ret |-> ret, log |-> log, rnd |-> rnd, sec |-> sec ]

\* apply_case as it would be with str.capitalize() in place of str.title()
apply_case_capitalizing(w, case, pick) ==
  LET capitalized ==
        [ k \in 1..Len(w) |->
            IF k = 1 THEN UpperChar(w[k]) ELSE LowerChar(w[k]) ]
  IN  CASE case = "lower" -> Some(Lower(w))
        [] case = "upper" -> Some(Upper(w))
        [] case = "title" -> Some(capitalized)
        [] case = "mixed" -> Some(<< Lower(w), Upper(w), capitalized >>[pick + 1])
        [] OTHER          -> None

\* apply_case(w) under case mode `case`; pick is random.choice's draw among
\* the three forms.  None stands for the ValueError of an unknown mode.
apply_case(w, case, pick) ==
  CASE case = "lower" -> Some(Lower(w))
    [] case = "upper" -> Some(Upper(w))
    [] case = "title" -> Some(Title(w))
    [] case = "mixed" -> Some(<< Lower(w), Upper(w), Title(w) >>[pick + 1])
    [] OTHER          -> None

\* The loop body: the t-th sampled word (t from 0) cased, with its digit.
\* In mixed mode the case draws follow the n_words draws of the sampling.
ProcessWord(w, t, n_words, case, add_digit_each, rnd, sec) ==
  LET w2 == apply_case(w, case, Randbelow(rnd, n_words + t, 3))[1]
  IN  IF add_digit_each
        THEN w2 \o << digits[Randbelow(sec, t, Len(digits)) + 1] >>
        ELSE w2

\* generate_memorable(n_words, case, add_digit_each, nouns_pool) run with
\* word list file `file`, sources rnd (random) and sec (secrets), clock
\* reading now and memorable log `log`.
generate_memorable(n_words, case, add_digit_each, nouns_pool, file, rnd, sec, now, log) ==
  IF n_words <= 0 THEN Outcome("ValueError", << >>, log, rnd, sec)
  ELSE
    LET pool == IF nouns_pool = None THEN load_nouns(file, None)
                ELSE nouns_pool[1]
    IN  IF n_words > Len(pool)
          THEN Outcome("ValueError", << >>, log, rnd, sec)
        ELSE
          LET words == sample(pool, n_words, rnd)
          IN  IF apply_case(words[1], case, 0) = None
                THEN Outcome("ValueError", << >>, log,
                             Advance(rnd, n_words), sec)
              ELSE
                LET processed ==
                      [ t \in 1..n_words |->
                          ProcessWord(words[t], t - 1, n_words, case,
                                      add_digit_each, rnd, sec) ]
                    pwd == Join(processed, << "-" >>)
                IN  Outcome("ok", pwd, append_log(log, now, pwd),
                            Advance(rnd, IF case = "mixed"
                                           THEN 2 * n_words ELSE n_words),
                            Advance(sec, IF add_digit_each
                                           THEN n_words ELSE 0))

\* ------------------------------------------------------------------------
\* generate_random
\* ------------------------------------------------------------------------

\* The alphabet as it would be if the forbidden characters were not removed
Alphabet_keeping_forbidden(include_punct, forbidden) ==
  LET base == LowerSet \cup UpperSet \cup DigitSet
  IN  IF include_punct THEN base \cup PunctSet ELSE base

\* The alphabet set: letters and digits, punctuation when asked for, less the
\* forbidden characters when forbidden is given and not empty
Alphabet(include_punct, forbidden) ==
  LET base  == LowerSet \cup UpperSet \cup DigitSet
      withP == IF include_punct THEN base \cup PunctSet ELSE base
  IN  IF forbidden # None /\ forbidden[1] # << >>
        THEN withP \ Range(forbidden[1])
        ELSE withP

\* generate_random as it would be if it refused only a negative length
generate_random_allowing_zero(length, include_punct, forbidden, rnd, sec, now, log) ==
  IF length < 0 THEN Outcome("ValueError", << >>, log, rnd, sec)
  ELSE
    LET alphabet == Alphabet(include_punct, forbidden)
    IN  IF alphabet = {}
          THEN Outcome("ValueError", << >>, log, rnd, sec)
        ELSE
          LET sorted == Sorted(alphabet)
              pwd == [ t \in 1..length |->
                         sorted[Randbelow(sec, t - 1, Len(sorted)) + 1] ]
          IN  Outcome("ok", pwd, append_log(log, now, pwd),
                      rnd, Advance(sec, length))

\* generate_random as it would be if it wrote its log line before it found
\* the alphabet empty
generate_random_logging_early(length, include_punct, forbidden, rnd, sec, now, log) ==
  IF length <= 0 THEN Outcome("ValueError", << >>, log, rnd, sec)
  ELSE
    LET alphabet == Alphabet(include_punct, forbidden)
    IN  IF alphabet = {}
          THEN Outcome("ValueError", << >>, append_log(log, now, << >>),
                       rnd, sec)
        ELSE
          LET sorted == Sorted(alphabet)
              pwd == [ t \in 1..length |->
                         sorted[Randbelow(sec, t - 1, Len(sorted)) + 1] ]
          IN  Outcome("ok", pwd, append_log(log, now, pwd),
                      rnd, Advance(sec, length))

\* generate_random(length, include_punct, forbidden) run with source sec
\* (secrets), clock reading now and random log `log`; rnd is not used.
generate_random(length, include_punct, forbidden, rnd, sec, now, log) ==
  IF length <= 0 THEN Outcome("ValueError", << >>, log, rnd, sec)
  ELSE
    LET alphabet == Alphabet(include_punct, forbidden)
    IN  IF alphabet = {}
          THEN Outcome("ValueError", << >>, log, rnd, sec)
        ELSE
          LET sorted == Sorted(alphabet)
              pwd == [ t \in 1..length |->
                         sorted[Randbelow(sec, t - 1, Len(sorted)) + 1] ]
          IN  Outcome("ok", pwd, append_log(log, now, pwd),
                      rnd, Advance(sec, length))

\* ------------------------------------------------------------------------
\* The state
\* ------------------------------------------------------------------------

VARIABLES
  memLog,     \* content of Memorable/Generated_Passwords.txt
  randLog,    \* content of Random/Generated_Passwords.txt
  nounsFile,  \* the lines of the word list file, as iterating the file gives them
  prng,       \* state of the random module's generator
  csprng,     \* state of the secrets module's source
  clock,      \* what datetime.now() reads
  pc,         \* where the program is
  argv,       \* the parsed command line
  stdin,      \* the answer typed at the prompt
  stdout,     \* what has been printed, one entry per print()
  made,       \* the calls made so far, in order: for each its arguments,
              \* how it ended and the value it returned
  initial     \* the two log files when the program started

vars == << memLog, randLog, nounsFile, prng, csprng, clock, pc, argv, stdin,
           stdout, made, initial >>

\* What generation calls read and change, as one value
World ==
  [ memLog |-> memLog, randLog |-> randLog, prng |-> prng,
    csprng |-> csprng, clock |-> clock, made |-> made ]

\* The step that leaves the program in world w
Becomes(w) ==
  /\ memLog' = w.memLog
  /\ randLog' = w.randLog
  /\ prng' = w.prng
  /\ csprng' = w.csprng
  /\ clock' = w.clock
  /\ made' = w.made

\* ------------------------------------------------------------------------
\* generation calls
\* ------------------------------------------------------------------------

\* The world after generate_memorable(n_words, case, add_digit_each,
\* nouns_pool) is called in world w with word list file `file`.  The clock
\* has been read when a line was written, and only then.
MemorableCall(w, file, n_words, case, add_digit_each, nouns_pool) ==
  LET out == generate_memorable(n_words, case, add_digit_each, nouns_pool,
                                file, w.prng, w.csprng, w.clock.at, w.memLog)
  IN  [ memLog |-> out.log,
        randLog |-> w.randLog,
        prng |-> out.rnd,
        csprng |-> out.sec,
        clock |-> IF out.log = w.memLog THEN w.clock ELSE Tick(w.clock),
        made |-> Append(w.made,
                   [ op |-> "generate_memorable",
                     args |-> [ n_words |-> n_words, case |-> case,
                                add_digit_each |-> add_digit_each,
                                nouns_pool |-> nouns_pool ],
                     status |-> out.status, ret |-> out.ret ]) ]

\* The world after generate_random(length, include_punct, forbidden) is
\* called in world w
RandomCall(w, length, include_punct, forbidden) ==
  LET out == generate_random(length, include_punct, forbidden,
                             w.prng, w.csprng, w.clock.at, w.randLog)
  IN  [ memLog |-> w.memLog,
        randLog |-> out.log,
        prng |-> out.rnd,
        csprng |-> out.sec,
        clock |-> IF out.log = w.randLog THEN w.clock ELSE Tick(w.clock),
        made |-> Append(w.made,
                   [ op |-> "generate_random",
                     args |-> [ length |-> length,
                                include_punct |-> include_punct,
                                forbidden |-> forbidden ],
                     status |-> out.status, ret |-> out.ret ]) ]

\* The world after append_log(path, password) is called on its own in world
\* w, path being one of the two log files
AppendCall(w, path, password) ==
  [ memLog |-> IF path = "MEMORABLE_LOG"
                 THEN append_log(w.memLog, w.clock.at, password)
                 ELSE w.memLog,
    randLog |-> IF path = "RANDOM_LOG"
                  THEN append_log(w.randLog, w.clock.at, password)
                  ELSE w.randLog,
    prng |-> w.prng,
    csprng |-> w.csprng,
    clock |-> Tick(w.clock),
    made |-> Append(w.made,
               [ op |-> "append_log",
                 args |-> [ log_path |-> path, password |-> password ],
                 status |-> "ok", ret |-> << >> ]) ]

\* The last call made in world w raised
Raised(w) == w.made # << >> /\ w.made[Len(w.made)].status # "ok"

\* ------------------------------------------------------------------------
\* generate_1000_mixed
\* ------------------------------------------------------------------------

\* random.random() on the next draw, in tenths
random_random(rng) == Draw(rng, 0) % 10

\* random.choice(seq) on the k-th next draw
random_choice(seq, rng, k) == seq[Randbelow(rng, k, Len(seq)) + 1]

\* set("O0Il|`'\" "): the stress driver's forbidden characters
AmbiguousChars == << "O","0","I","l","|",GraveAccent,"'","\""," " >>

\* The word counts as they would be with 6 among them
StressWordCounts_to_six == << 3, 4, 5, 6 >>

\* The lists the stress driver draws its parameters from
StressWordCounts == << 3, 4, 5 >>
StressCases      == << "lower", "upper", "title", "mixed" >>
StressLengths    == << 12, 14, 16, 20 >>

\* range(1000)
StressCount == 1000

\* One iteration of the loop: a coin flip, then the drawn parameters and the
\* call
StressIteration(w, file) ==
  LET drawn == [ w EXCEPT !.prng = Advance(w.prng, 3) ]
  IN  IF random_random(w.prng) < 5
        THEN MemorableCall(drawn, file,
                           random_choice(StressWordCounts, w.prng, 1),
                           random_choice(StressCases, w.prng, 2), TRUE, None)
        ELSE RandomCall(drawn, random_choice(StressLengths, w.prng, 1),
                        random_choice(<< TRUE, FALSE >>, w.prng, 2),
                        Some(AmbiguousChars))

\* `count` iterations from world w, the loop left at the first call that
\* raises.  The iterations are run as two halves one after the other.
RECURSIVE Iterations(_, _, _)
Iterations(w, file, count) ==
  IF count = 0 \/ Raised(w) THEN w
  ELSE IF count = 1 THEN StressIteration(w, file)
  ELSE Iterations(Iterations(w, file, count \div 2), file,
                  count - (count \div 2))

\* generate_1000_mixed() called in world w, in which no call has been made
generate_1000_mixed(w, file) == Iterations(w, file, StressCount)

\* ------------------------------------------------------------------------
\* The environments and inputs the model is run on
\* ------------------------------------------------------------------------

Cat    == << "c","a","t" >>
Dog    == << "d","o","g" >>
Sun    == << "s","u","n" >>
Tea    == << "t","e","a" >>
OClock == << "o","'","c","l","o","c","k" >>

\* Word list files: three words; five words, with padding, a blank line and
\* no line end after the last word
NounsThree == << Cat \o << "\n" >>, Dog \o << "\n" >>, Sun \o << "\n" >> >>

NounsFive ==
  << Cat \o << "\n" >>, << " " >> \o Dog \o << " ", "\n" >>, << "\n" >>,
     Sun \o << "\n" >>, OClock \o << "\r", "\n" >>, Tea >>

\* Pools a caller passes: the spec's example, and one listing a word twice
PoolThree    == << Cat, Dog, Sun >>
PoolRepeated == << Cat, Dog, Cat >>

\* Tapes of draws
TapeA == << 0, 1, 2, 3, 4, 5, 6 >>
TapeB == << 7, 15, 93, 40, 2, 58, 11, 0, 29, 6, 85 >>
TapeC == << 24, 1, 47, 18, 64, 9, 75, 91, 63, 46, 13, 30, 5 >>
TapeD == [ k \in 1..43 |-> (41 * k) % 100 ]

\* A source at any position of a tape
Sources(tapes) ==
  { [ tape |-> t, pos |-> p ] : << t, p >> \in
      { << t, p >> \in tapes \X (0..12) : p < Len(t) } }

\* How a run can start: the log files as earlier runs of the program leave
\* them (absent or empty, or lines written by append_log), and the clock:
\* calls within the same second and a second apart, or calls a second and
\* days apart from the last second of a Sunday
EarlierClock == [ wday |-> 0, mon |-> 5, day |-> 4, year |-> 2026, sod |-> 43200 ]

Starts ==
  { [ mem |-> << >>, rand |-> << >>,
      clock |-> [ at |-> [ wday |-> 3, mon |-> 10, day |-> 29, year |-> 2026,
                           sod |-> 1500 ],
                  elapse |-> << 0, 0, 1 >>, pos |-> 0 ] ],
    [ mem |-> append_log(<< >>, EarlierClock, << "S","U","N","-","C","A","T" >>),
      rand |-> append_log(append_log(<< >>, EarlierClock, << "a","|","7" >>),
                          Later(EarlierClock, 1), << "x",":","Y","3" >>),
      clock |-> [ at |-> [ wday |-> 6, mon |-> 1, day |-> 3, year |-> 2027,
                           sod |-> 86399 ],
                  elapse |-> << 1, 0, 259200 >>, pos |-> 0 ] ] }

LettersAndDigits == ascii_lowercase \o ascii_uppercase \o digits

\* Inputs of single calls
NWordsInputs    == -1..4
CaseInputs      == { "lower", "upper", "title", "mixed", "camel" }
PoolInputs      == { None, Some(<< >>), Some(PoolThree), Some(PoolRepeated) }
LengthInputs    == { -1, 0, 1, 2, 3, 8 }
ForbiddenInputs ==
  { None, Some(<< >>), Some(AmbiguousChars), Some(LettersAndDigits),
    Some(CodePointOrder), Some(punctuation \o << "a", "a", "7" >>) }

\* Inputs of the calls of a sequence of calls
SeqNWordsInputs    == { 0, 2, 4 }
SeqCaseInputs      == { "mixed", "camel" }
SeqPoolInputs      == { None, Some(PoolRepeated) }
SeqLengthInputs    == { 0, 2 }
SeqForbiddenInputs == { None, Some(CodePointOrder) }

\* Inputs of append_log called on its own: a log file and a password, which
\* can be any text
AppendInputs ==
  { << "MEMORABLE_LOG", << "x" >> >>, << "RANDOM_LOG", << "x" >> >>,
    << "MEMORABLE_LOG", << "a", "\n", "b" >> >> }

\* The longest sequence of calls explored
MaxCalls == 2

NoArgv == [ mode |-> "none" ]

\* What every run starts from, whatever the program then does
InitCommon ==
  /\ \E st \in Starts :
       /\ initial = [ mem |-> st.mem, rand |-> st.rand ]
       /\ clock = st.clock
  /\ memLog = initial.mem
  /\ randLog = initial.rand
  /\ stdout = << >>
  /\ made = << >>

\* ------------------------------------------------------------------------
\* The module used as a library: any sequence of calls of its functions
\* ------------------------------------------------------------------------

Init ==
  /\ InitCommon
  /\ nounsFile \in { NounsThree, NounsFive }
  /\ \E t \in { << TapeA, TapeC >>, << TapeB, TapeB >> } :
       /\ prng = [ tape |-> t[1], pos |-> 0 ]
       /\ csprng = [ tape |-> t[2], pos |-> 0 ]
  /\ pc = "lib"
  /\ argv = NoArgv
  /\ stdin = << >>

LibMemorable ==
  /\ pc = "lib"
  /\ Len(made) < MaxCalls
  /\ \E n \in SeqNWordsInputs, c \in SeqCaseInputs, p \in SeqPoolInputs :
       Becomes(MemorableCall(World, nounsFile, n, c, TRUE, p))
  /\ UNCHANGED << nounsFile, pc, argv, stdin, stdout, initial >>

LibRandom ==
  /\ pc = "lib"
  /\ Len(made) < MaxCalls
  /\ \E l \in SeqLengthInputs, u \in BOOLEAN, f \in SeqForbiddenInputs :
       Becomes(RandomCall(World, l, u, f))
  /\ UNCHANGED << nounsFile, pc, argv, stdin, stdout, initial >>

LibAppendLog ==
  /\ pc = "lib"
  /\ Len(made) < MaxCalls
  /\ \E a \in AppendInputs : Becomes(AppendCall(World, a[1], a[2]))
  /\ UNCHANGED << nounsFile, pc, argv, stdin, stdout, initial >>

Next == LibMemorable \/ LibRandom \/ LibAppendLog

Spec == Init /\ [][Next]_vars

\* ------------------------------------------------------------------------
\* One call of one generator, on every input and in every environment
\* ------------------------------------------------------------------------

InitMemorable ==
  /\ InitCommon
  /\ nounsFile \in { NounsThree, NounsFive }
  /\ prng \in Sources({ TapeA, TapeB })
  /\ csprng \in { [ tape |-> TapeA, pos |-> 0 ], [ tape |-> TapeB, pos |-> 0 ],
                  [ tape |-> TapeC, pos |-> 5 ] }
  /\ pc = "call"
  /\ argv = NoArgv
  /\ stdin = << >>

InitRandom ==
  /\ InitCommon
  /\ nounsFile = NounsFive
  /\ prng = [ tape |-> TapeA, pos |-> 0 ]
  /\ csprng \in Sources({ TapeA, TapeB, TapeC })
  /\ pc = "call"
  /\ argv = NoArgv
  /\ stdin = << >>

OnceMemorable ==
  /\ pc = "call"
  /\ \E n \in NWordsInputs, c \in CaseInputs, d \in BOOLEAN,
        p \in PoolInputs :
       Becomes(MemorableCall(World, nounsFile, n, c, d, p))
  /\ pc' = "returned"
  /\ UNCHANGED << nounsFile, argv, stdin, stdout, initial >>

OnceRandom ==
  /\ pc = "call"
  /\ \E l \in LengthInputs, u \in BOOLEAN, f \in ForbiddenInputs :
       Becomes(RandomCall(World, l, u, f))
  /\ pc' = "returned"
  /\ UNCHANGED << nounsFile, argv, stdin, stdout, initial >>

SpecMemorable == InitMemorable /\ [][OnceMemorable]_vars

SpecRandom == InitRandom /\ [][OnceRandom]_vars

\* ------------------------------------------------------------------------
\* main(): the command line
\* ------------------------------------------------------------------------

\* choices=[...] of --case
CaseChoices == { "lower", "upper", "title", "mixed" }

ModeSpelling ==
  [ memorable |-> << "m","e","m","o","r","a","b","l","e" >>,
    random    |-> << "r","a","n","d","o","m" >>,
    stress    |-> << "s","t","r","e","s","s" >> ]

\* getattr(args, name, default)
GetAttr(args, name, default) ==
  IF name \in DOMAIN args THEN args[name] ELSE default

\* parser.parse_args() rejects a --case outside its choices and exits
ParseFails(args) == args.mode = "memorable" /\ args.case \notin CaseChoices

\* ChosenMode as it would be without the default for an empty answer
ChosenMode_without_default(args, answer) ==
  IF args.mode # "none" THEN Some(args.mode)
  ELSE LET choice == Lower(Strip(answer))
       IN  IF \E m \in DOMAIN ModeSpelling : ModeSpelling[m] = choice
             THEN Some(CHOOSE m \in DOMAIN ModeSpelling :
                         ModeSpelling[m] = choice)
             ELSE None

\* args.mode once main has asked at the prompt if it had to: None when the
\* answer is not one of the three modes
ChosenMode(args, answer) ==
  IF args.mode # "none" THEN Some(args.mode)
  ELSE LET typed  == Lower(Strip(answer))
           choice == IF typed = << >> THEN ModeSpelling.memorable ELSE typed
       IN  IF \E m \in DOMAIN ModeSpelling : ModeSpelling[m] = choice
             THEN Some(CHOOSE m \in DOMAIN ModeSpelling :
                         ModeSpelling[m] = choice)
             ELSE None

Printed(what, value) == [ what |-> what, value |-> value ]

\* How main ends after the generation call, or the stress run, that left
\* world w: an exception ends the program, otherwise `line` is printed
MainEnds(w, line) ==
  /\ Becomes(w)
  /\ IF Raised(w)
       THEN /\ stdout' = stdout
            /\ pc' = "crashed"
       ELSE /\ stdout' = Append(stdout, line)
            /\ pc' = "done"
  /\ UNCHANGED << nounsFile, argv, stdin, initial >>

\* parse_args() fails: usage message on stderr, exit status 2
MainUsage ==
  /\ pc = "start"
  /\ ParseFails(argv)
  /\ pc' = "usage"
  /\ UNCHANGED << memLog, randLog, nounsFile, prng, csprng, clock, argv,
                  stdin, stdout, made, initial >>

\* the answer at the prompt is not a mode: print and return
MainInvalidChoice ==
  /\ pc = "start"
  /\ ~ParseFails(argv)
  /\ ChosenMode(argv, stdin) = None
  /\ stdout' = Append(stdout, Printed("message", "Invalid choice."))
  /\ pc' = "done"
  /\ UNCHANGED << memLog, randLog, nounsFile, prng, csprng, clock, argv,
                  stdin, made, initial >>

\* mode memorable: one call, its value printed
MainMemorable ==
  /\ pc = "start"
  /\ ~ParseFails(argv)
  /\ ChosenMode(argv, stdin) = Some("memorable")
  /\ LET w == MemorableCall(World, nounsFile,
                            GetAttr(argv, "n_words", 4),
                            GetAttr(argv, "case", "lower"),
                            ~GetAttr(argv, "no_digit", FALSE), None)
     IN  MainEnds(w, Printed("password", w.made[Len(w.made)].ret))

\* mode random: one call, its value printed
MainRandom ==
  /\ pc = "start"
  /\ ~ParseFails(argv)
  /\ ChosenMode(argv, stdin) = Some("random")
  /\ LET f == GetAttr(argv, "forbidden", << >>)
         w == RandomCall(World, GetAttr(argv, "length", 16),
                         ~GetAttr(argv, "no_punct", FALSE),
                         IF f # << >> THEN Some(f) ELSE None)
     IN  MainEnds(w, Printed("password", w.made[Len(w.made)].ret))

\* mode stress: the whole run of generate_1000_mixed, then the message
MainStress ==
  /\ pc = "start"
  /\ ~ParseFails(argv)
  /\ ChosenMode(argv, stdin) = Some("stress")
  /\ MainEnds(generate_1000_mixed(World, nounsFile),
              Printed("message", "Generated 1000 mixed passwords."))

\* The command lines and answers the model runs main on
Argvs ==
  { [ mode |-> "none" ], [ mode |-> "stress" ] }
  \cup { [ mode |-> "memorable", n_words |-> n, case |-> c, no_digit |-> d ] :
           n \in { 0, 3, 4, 6 }, c \in { "lower", "mixed", "camel" },
           d \in BOOLEAN }
  \cup { [ mode |-> "random", length |-> l, no_punct |-> u, forbidden |-> f ] :
           l \in { 0, 16 }, u \in BOOLEAN,
           f \in { << >>, AmbiguousChars, CodePointOrder } }

Answers ==
  { << >>, << " ", "\t" >>, ModeSpelling.memorable,
    << " " >> \o Upper(ModeSpelling.random) \o << " " >>,
    Title(ModeSpelling.stress), << "m", "e", "m" >>,
    ModeSpelling.random \o << "s" >> }

InitCLI ==
  /\ InitCommon
  /\ nounsFile \in { NounsThree, NounsFive }
  /\ \E t \in { << TapeA, TapeC >>, << TapeB, TapeB >>, << TapeD, TapeC >> } :
       /\ prng = [ tape |-> t[1], pos |-> 0 ]
       /\ csprng = [ tape |-> t[2], pos |-> 0 ]
  /\ pc = "start"
  /\ argv \in Argvs
  /\ stdin \in IF argv.mode = "none" THEN Answers ELSE { << >> }

NextCLI ==
  \/ MainUsage
  \/ MainInvalidChoice
  \/ MainMemorable
  \/ MainRandom
  \/ MainStress

SpecCLI == InitCLI /\ [][NextCLI]_vars

\* main has returned, raised or exited
Terminated == pc \in { "done", "crashed", "usage" }

\* ------------------------------------------------------------------------
\* The calls made, counted
\* ------------------------------------------------------------------------

IsMemorable(call) == call.op = "generate_memorable"
IsRandom(call) == call.op = "generate_random"

NoCall == [ op |-> "none", args |-> << >>, status |-> "none", ret |-> << >> ]

IsGeneration(call) == IsMemorable(call) \/ IsRandom(call)

\* The last call made
last == IF made = << >> THEN NoCall ELSE made[Len(made)]

\* Generation calls made
calls == Cardinality({ k \in DOMAIN made : IsGeneration(made[k]) })

\* Only generation calls have been made, none of append_log on its own
OnlyGenerationCalls == \A k \in DOMAIN made : IsGeneration(made[k])

\* generate_memorable calls that returned
okMem ==
  Cardinality({ k \in DOMAIN made :
                  IsMemorable(made[k]) /\ made[k].status = "ok" })

\* generate_random calls that returned
okRand ==
  Cardinality({ k \in DOMAIN made :
                  IsRandom(made[k]) /\ made[k].status = "ok" })

\* ------------------------------------------------------------------------
\* Reading text back: lines, fields, segments
\* ------------------------------------------------------------------------

IsPrefix(a, b) == Len(a) <= Len(b) /\ SubSeq(b, 1, Len(a)) = a

\* The positions of the line ends of a text
LineEnds(text) == { k \in DOMAIN text : text[k] = "\n" }

\* The number of lines of a text
LineCount(text) == Cardinality(LineEnds(text))

\* The line that ends at line end e, without its "\n"
LineEndingAt(text, e) ==
  LET before == { k \in LineEnds(text) : k < e }
      start  == IF before = {} THEN 1
                ELSE 1 + CHOOSE k \in before : \A j \in before : j <= k
  IN  SubSeq(text, start, e - 1)

\* The lines of a text, as a set
Lines(text) == { LineEndingAt(text, e) : e \in LineEnds(text) }

\* A text is whole lines when nothing follows its last line end
WholeLines(text) == text = << >> \/ text[Len(text)] = "\n"

\* Where the first "  |  " of a line starts (0: nowhere)
SeparatorAt(line) ==
  LET at == { k \in 1..(Len(line) - 4) : SubSeq(line, k, k + 4) = Separator }
  IN  IF at = {} THEN 0 ELSE CHOOSE k \in at : \A j \in at : k <= j

TimestampField(line) == SubSeq(line, 1, SeparatorAt(line) - 1)

PasswordField(line) == SubSeq(line, SeparatorAt(line) + 5, Len(line))

\* "<Weekday Mon DD YYYY HH:MM:SS>": 24 characters
IsTimestamp(ts) ==
  /\ Len(ts) = 24
  /\ SubSeq(ts, 1, 3) \in Range(WeekdayAbbr)
  /\ SubSeq(ts, 5, 7) \in Range(MonthAbbr)
  /\ \A k \in { 4, 8, 11, 16 } : ts[k] = " "
  /\ \A k \in { 19, 22 } : ts[k] = ":"
  /\ \A k \in { 9, 10, 12, 13, 14, 15, 17, 18, 20, 21, 23, 24 } :
       ts[k] \in DigitSet

\* A line of the form "<timestamp>  |  <password>"
IsLogLine(line) == SeparatorAt(line) > 0 /\ IsTimestamp(TimestampField(line))

\* What a log file holds beyond what it held when the program started
Added(log, start) == SubSeq(log, Len(start) + 1, Len(log))

\* The log file the last call writes to, and what that file held at the start
LogOf(call) == IF call.op = "generate_memorable" THEN memLog ELSE randLog

\* text.split(c)
RECURSIVE SplitOn(_, _)
SplitOn(text, c) ==
  LET at == { k \in DOMAIN text : text[k] = c }
  IN  IF at = {} THEN << text >>
      ELSE LET k == CHOOSE x \in at : \A y \in at : x <= y
           IN  << SubSeq(text, 1, k - 1) >>
                 \o SplitOn(SubSeq(text, k + 1, Len(text)), c)

\* The pool a generate_memorable call samples from
PoolOf(call) ==
  IF call.args.nouns_pool = None THEN load_nouns(nounsFile, None)
  ELSE call.args.nouns_pool[1]

\* ------------------------------------------------------------------------
\* C1.  In a sequence of calls of generate_memorable and generate_random:
\* after K calls of a generator that returned, its log file holds
\* exactly K lines more than at the start; what was added is whole lines,
\* each of the form "<timestamp>  |  <password>"; and when a call returns,
\* the last line of its log file is already there and its password field is
\* the value returned.
\* ------------------------------------------------------------------------
C1_OneLinePerReturnedCall ==
  OnlyGenerationCalls =>
    /\ IsPrefix(initial.mem, memLog)
    /\ IsPrefix(initial.rand, randLog)
    /\ LineCount(Added(memLog, initial.mem)) = okMem
    /\ LineCount(Added(randLog, initial.rand)) = okRand
    /\ WholeLines(Added(memLog, initial.mem))
    /\ WholeLines(Added(randLog, initial.rand))
    /\ \A line \in Lines(Added(memLog, initial.mem))
                     \cup Lines(Added(randLog, initial.rand)) : IsLogLine(line)
    /\ last.status = "ok" =>
         /\ WholeLines(LogOf(last))
         /\ LogOf(last) # << >>
         /\ PasswordField(LineEndingAt(LogOf(last), Len(LogOf(last))))
              = last.ret

\* Two calls of generate_memorable returned, on a log file that held a line
C1_Witness ==
  /\ OnlyGenerationCalls
  /\ okMem = 2
  /\ initial.mem # << >>
  /\ LineCount(memLog) = LineCount(initial.mem) + 2

\* ------------------------------------------------------------------------
\* C2.  A generation call that fails validation (generate_memorable with
\* n_words <= 0, n_words larger than the pool or an unknown case mode;
\* generate_random with length <= 0 or an empty alphabet) raises, returns
\* nothing and leaves both log files as they were; a call that raises has
\* logged nothing, and a call that returns has logged the value it returns.
\* ------------------------------------------------------------------------
FailsValidation(call) ==
  \/ /\ IsMemorable(call)
     /\ \/ call.args.n_words <= 0
        \/ call.args.n_words > Len(PoolOf(call))
        \/ call.args.case \notin CaseChoices
  \/ /\ IsRandom(call)
     /\ \/ call.args.length <= 0
        \/ \A c \in LowerSet \cup UpperSet \cup DigitSet
                      \cup (IF call.args.include_punct THEN PunctSet ELSE {}) :
             /\ call.args.forbidden # None
             /\ c \in Range(call.args.forbidden[1])

C2_FailedCallLeavesNoTrace ==
  [][ calls' = calls + 1 =>
        /\ FailsValidation(last') => last'.status = "ValueError"
        /\ last'.status # "ok" =>
             /\ last'.ret = << >>
             /\ memLog' = memLog
             /\ randLog' = randLog
        /\ last'.status = "ok" =>
             /\ LineCount(memLog') + LineCount(randLog')
                  = LineCount(memLog) + LineCount(randLog) + 1
             /\ PasswordField(LineEndingAt(LogOf(last)', Len(LogOf(last)')))
                  = last'.ret ]_vars

\* A call of each generator failed a late check, after an earlier call had
\* written a line: an unknown case mode with a valid word count, or an
\* alphabet emptied by the forbidden characters
C2_Witness ==
  /\ last.status = "ValueError"
  /\ okMem + okRand = 1
  /\ \/ /\ IsMemorable(last)
        /\ last.args.n_words >= 1
        /\ last.args.n_words <= Len(PoolOf(last))
        /\ last.args.case \notin CaseChoices
     \/ /\ IsRandom(last)
        /\ last.args.length >= 1

\* ------------------------------------------------------------------------
\* C9.  The log files are append-only and each generator writes only its
\* own: over every step, what a log file held is a prefix of what it holds;
\* a generate_memorable call leaves the random log as it was and a
\* generate_random call leaves the memorable log as it was.
\* ------------------------------------------------------------------------
C9_LogsAppendOnly ==
  [][ /\ IsPrefix(memLog, memLog')
      /\ IsPrefix(randLog, randLog')
      /\ (calls' = calls + 1 /\ IsMemorable(last')) => randLog' = randLog
      /\ (calls' = calls + 1 /\ IsRandom(last')) => memLog' = memLog ]_vars

\* Both log files held lines at the start and each has been added to
C9_Witness ==
  /\ initial.mem # << >>
  /\ initial.rand # << >>
  /\ okMem = 1
  /\ okRand = 1
  /\ Len(memLog) > Len(initial.mem)
  /\ Len(randLog) > Len(initial.rand)

\* ------------------------------------------------------------------------
\* The segments of a memorable password
\* ------------------------------------------------------------------------

Segments(password) == SplitOn(password, "-")

\* The forms case mode `case` allows for word w
CaseForms(w, case) ==
  CASE case = "lower" -> { Lower(w) }
    [] case = "upper" -> { Upper(w) }
    [] case = "title" -> { Title(w) }
    [] case = "mixed" -> { Lower(w), Upper(w), Title(w) }
    [] OTHER          -> {}

\* The segments word w can give: a form of w, then one decimal digit when
\* digits are added and nothing otherwise
SegmentsOf(w, case, add_digit_each) ==
  IF add_digit_each
    THEN { f \o << d >> : f \in CaseForms(w, case), d \in DigitSet }
    ELSE CaseForms(w, case)

\* The pool word under a segment: the segment without its digit, lower-cased
Underlying(segment, add_digit_each) ==
  Lower(IF add_digit_each THEN SubSeq(segment, 1, Len(segment) - 1)
        ELSE segment)

\* ------------------------------------------------------------------------
\* C3.  A generate_memorable(n_words = N) call that returns gives exactly N
\* hyphen-joined segments, and the N pool words under them are pairwise
\* distinct, also when the pool lists a word more than once.
\* ------------------------------------------------------------------------
C3_SegmentsDistinctWords ==
  (IsMemorable(last) /\ last.status = "ok") =>
    LET segs == Segments(last.ret)
    IN  /\ Len(segs) = last.args.n_words
        /\ \A a, b \in DOMAIN segs :
             a # b => Underlying(segs[a], last.args.add_digit_each)
                        # Underlying(segs[b], last.args.add_digit_each)

\* ------------------------------------------------------------------------
\* C4.  generate_memorable raises ValueError exactly when N <= 0, or N
\* exceeds the number of distinct words of the pool, or the case mode is not
\* one of lower, upper, title, mixed.
\* ------------------------------------------------------------------------
C4_MemorableFailsIffInvalid ==
  IsMemorable(last) =>
    ( last.status = "ValueError" <=>
        \/ last.args.n_words <= 0
        \/ last.args.n_words > Cardinality(Range(PoolOf(last)))
        \/ last.args.case \notin { "lower", "upper", "title", "mixed" } )

\* ------------------------------------------------------------------------
\* C7.  In the value a generate_memorable call returns, there are n_words
\* segments and every segment is a pool word in a form the case mode allows
\* (lower, upper, title; mixed: any of the three, word by word), followed by
\* exactly one decimal digit when digits are added and by nothing when not.
\* With pool [cat, dog, sun], N = 3, case upper and no digits the segments
\* are CAT, DOG and SUN in some order.
\* ------------------------------------------------------------------------
C7_SegmentsAreCasedPoolWords ==
  (IsMemorable(last) /\ last.status = "ok") =>
    LET segs == Segments(last.ret)
    IN  /\ Len(segs) = last.args.n_words
        /\ \A k \in DOMAIN segs :
             \E w \in Range(PoolOf(last)) :
               segs[k] \in SegmentsOf(w, last.args.case,
                                      last.args.add_digit_each)
        /\ ( /\ last.args.nouns_pool = Some(PoolThree)
             /\ last.args.n_words = 3
             /\ last.args.case = "upper"
             /\ ~last.args.add_digit_each )
           => Range(segs) = { << "C","A","T" >>, << "D","O","G" >>,
                              << "S","U","N" >> }

\* A mixed-case call with digits returned a word in title case whose title
\* form has a capital inside, one in upper case and one in lower case
C7_Witness ==
  /\ IsMemorable(last)
  /\ last.status = "ok"
  /\ last.args.case = "mixed"
  /\ last.args.add_digit_each
  /\ last.args.n_words >= 3
  /\ LET segs  == Segments(last.ret)
         words == { SubSeq(segs[k], 1, Len(segs[k]) - 1) : k \in DOMAIN segs }
     IN  /\ \A k \in DOMAIN segs : segs[k][Len(segs[k])] \in DigitSet
         /\ << "O","'","C","l","o","c","k" >> \in words
         /\ words \cap { Upper(Cat), Upper(Dog), Upper(Sun), Upper(Tea) } # {}
         /\ words \cap { Cat, Dog, Sun, Tea } # {}

\* ------------------------------------------------------------------------
\* C5.  For L >= 1, a generate_random call that returns gives exactly L
\* characters, each a letter, a digit or, when punctuation is asked for, a
\* punctuation character, and none of them a forbidden character.
\* ------------------------------------------------------------------------
C5_RandomCharactersAllowed ==
  (IsRandom(last) /\ last.status = "ok") =>
    /\ last.args.length >= 1
    /\ Len(last.ret) = last.args.length
    /\ \A k \in DOMAIN last.ret :
         /\ \/ last.ret[k] \in LowerSet \cup UpperSet \cup DigitSet
            \/ last.args.include_punct /\ last.ret[k] \in PunctSet
         /\ last.args.forbidden # None =>
              last.ret[k] \notin Range(last.args.forbidden[1])
         /\ ~last.args.include_punct => last.ret[k] \notin PunctSet

\* Eight characters were returned with punctuation on and the ambiguous
\* characters forbidden, a punctuation character among them
C5_Witness ==
  /\ IsRandom(last)
  /\ last.status = "ok"
  /\ last.args.length = 8
  /\ last.args.include_punct
  /\ last.args.forbidden = Some(AmbiguousChars)
  /\ \E k \in DOMAIN last.ret : last.ret[k] \in PunctSet

\* ------------------------------------------------------------------------
\* C6.  generate_random raises ValueError exactly when L <= 0 or no
\* character is left once the forbidden ones are removed.
\* ------------------------------------------------------------------------
C6_RandomFailsIffInvalid ==
  IsRandom(last) =>
    LET candidates == LowerSet \cup UpperSet \cup DigitSet
                        \cup (IF last.args.include_punct THEN PunctSet ELSE {})
        left == IF last.args.forbidden = None THEN candidates
                ELSE { c \in candidates : c \notin Range(last.args.forbidden[1]) }
    IN  /\ last.status \in { "ok", "ValueError" }
        /\ last.status = "ValueError" <=>
             (last.args.length <= 0 \/ left = {})

\* A call with L >= 1 failed because every letter and digit was forbidden and
\* punctuation was off
C6_Witness ==
  /\ IsRandom(last)
  /\ last.status = "ValueError"
  /\ last.args.length >= 1
  /\ ~last.args.include_punct
  /\ last.args.forbidden = Some(LettersAndDigits)

\* ------------------------------------------------------------------------
\* C8.  Every invocation of the command line terminates; in memorable or
\* random mode it has then made at most one generation call; with no
\* subcommand an empty answer selects memorable mode, and an answer that is
\* not a mode is reported and ends the program with no generation call made
\* and no log line written.
\* ------------------------------------------------------------------------
RunsInMode(m) == ~ParseFails(argv) /\ ChosenMode(argv, stdin) = Some(m)

AnswerIsNoMode ==
  /\ argv.mode = "none"
  /\ Lower(Strip(stdin)) \notin
       { << >>, << "m","e","m","o","r","a","b","l","e" >>,
         << "r","a","n","d","o","m" >>, << "s","t","r","e","s","s" >> }

CallCountsExceptStress ==
  /\ (argv.mode \in { "memorable", "random" }) => calls <= 1
  /\ (argv.mode = "none" /\ Strip(stdin) = << >>) =>
       /\ calls = 1
       /\ IsMemorable(last)
  /\ (argv.mode = "none"
        /\ Lower(Strip(stdin)) = << "r","a","n","d","o","m" >>) =>
       /\ calls = 1
       /\ IsRandom(last)
  /\ AnswerIsNoMode =>
       /\ pc = "done"
       /\ calls = 0
       /\ memLog = initial.mem
       /\ randLog = initial.rand
       /\ stdout = << Printed("message", "Invalid choice.") >>

\* C8 as claimed: a terminated stress run has made exactly 1000 calls
C8_StressMakesExactlyThousandCalls ==
  Terminated =>
    /\ CallCountsExceptStress
    /\ RunsInMode("stress") => calls = 1000

\* main can take its step: the command line is rejected, or the mode asked for
\* is none or one of the three
MainCanStep ==
  \/ ParseFails(argv)
  \/ ChosenMode(argv, stdin) = None
  \/ \E m \in DOMAIN ModeSpelling : RunsInMode(m)

\* C8 as amended: main ends in its one step, and nothing follows; a stress
\* run makes exactly 1000 calls when none of them raises, which is so when the
\* word list holds at least 5 words; a call that raises ends the run at that
\* call, after at most 1000 calls
C8_TerminatesWithCallCounts ==
  /\ [](~Terminated => (pc = "start" /\ MainCanStep))
  /\ [][~Terminated /\ Terminated']_vars
  /\ [](Terminated =>
          /\ CallCountsExceptStress
          /\ RunsInMode("stress") =>
               /\ calls <= 1000
               /\ pc = "done" => (calls = 1000 /\ okMem + okRand = 1000)
               /\ pc # "done" =>
                    /\ pc = "crashed"
                    /\ last.status = "ValueError"
                    /\ okMem + okRand = calls - 1
               /\ Len(load_nouns(nounsFile, None)) >= 5 => pc = "done")

\* A stress run chosen at the prompt has ended after 1000 calls
C8_Witness ==
  /\ pc = "done"
  /\ argv.mode = "none"
  /\ stdin # << >>
  /\ RunsInMode("stress")
  /\ calls = 1000
  /\ stdout = << Printed("message", "Generated 1000 mixed passwords.") >>

\* ------------------------------------------------------------------------
\* C10.  Every call of the stress driver is generate_memorable with a word
\* count in {3,4,5}, a recognized case mode and digits, or generate_random
\* with a length in {12,14,16,20} and the ambiguous characters forbidden; so
\* with a word list of at least 5 words no call of a stress run raises, the
\* finished run has added exactly 1000 lines to the two log files together,
\* and no random password holds an ambiguous character.
\* ------------------------------------------------------------------------
Ambiguous == { "O", "0", "I", "l", "|", GraveAccent, "'", "\"", " " }

C10_StressCallsAreValid ==
  RunsInMode("stress") =>
    /\ \A k \in DOMAIN made :
         /\ IsMemorable(made[k]) =>
              /\ made[k].args.n_words \in { 3, 4, 5 }
              /\ made[k].args.case \in { "lower", "upper", "title", "mixed" }
              /\ made[k].args.add_digit_each
         /\ IsRandom(made[k]) =>
              /\ made[k].args.length \in { 12, 14, 16, 20 }
              /\ made[k].args.forbidden # None
              /\ Range(made[k].args.forbidden[1]) = Ambiguous
              /\ \A c \in Range(made[k].ret) : c \notin Ambiguous
    /\ Len(load_nouns(nounsFile, None)) >= 5 =>
         /\ \A k \in DOMAIN made : made[k].status = "ok"
         /\ pc # "crashed"
         /\ pc = "done" =>
              LineCount(memLog) + LineCount(randLog)
                = LineCount(initial.mem) + LineCount(initial.rand) + 1000

\* A stress run has finished, with calls of both generators, with and
\* without punctuation, on log files that held lines before
C10_Witness ==
  /\ RunsInMode("stress")
  /\ pc = "done"
  /\ okMem > 0
  /\ okRand > 0
  /\ okMem + okRand = 1000
  /\ \E k \in DOMAIN made :
       IsRandom(made[k]) /\ \E c \in Range(made[k].ret) : c \in PunctSet
  /\ initial.mem # << >>
  /\ Len(load_nouns(nounsFile, None)) = 5

====
